---- MODULE Spec2Model ----
(***************************************************************************)
(* Borrow / reservation lifecycle of the library backend.                  *)
(*                                                                         *)
(* The database is four tables (users, books, borrows, reservations).      *)
(* Every route handler is a chain of steps, one per awaited call; the      *)
(* synchronous code between two awaits belongs to the step that precedes   *)
(* it.  Each step is an operator  Step(d, r, t)  over the database d, the  *)
(* request's local state r and the clock t.                                *)
(*                                                                         *)
(*   Spec       several requests in flight, interleaved step by step       *)
(*   RaceSpec   as Spec, the borrow, reserve and cancel requests only      *)
(*   SeqSpec    every request runs to completion before the next starts;   *)
(*              lending, book create and update, the clock standing still  *)
(*   TimedSpec  as SeqSpec, the borrow and reservation endpoints with the  *)
(*              clock advancing                                            *)
(*   BRSpec     as TimedSpec, borrow and return only                       *)
(*   HoldSpec   as TimedSpec without renewals, on larger tables            *)
(*   OverdueSpec  as BRSpec, with the overdue query                        *)
(*   ListSpec   borrow, return, reserve, cancel and the two lists, the     *)
(*              clock standing still                                       *)
(*   AdminSpec  as ListSpec without the lists, with book create and        *)
(*              delete, user status and user delete                        *)
(*   RegisterSpec  registrations in flight, interleaved step by step,      *)
(*              under fair scheduling and fair random draws                *)
(*                                                                         *)
(* A response is the value a handler returns, Served(r).resp; the server   *)
(* keeps no record of it.                                                  *)
(*                                                                         *)
(* Time is counted in ticks, DayLen ticks to a day.  Date.setDate(+n) is   *)
(* modelled as adding n * DayLen ticks (a server clock without DST).       *)
(***************************************************************************)
EXTENDS Integers, Sequences, FiniteSets, TLC

\* ------------------------------------------------------------------ bounds
MaxCopies == 2
MaxBorrows == 2
MaxReservations == 2
ClockBorrows == 1
ClockReservations == 1
NumProcs == 2
DayLen == 2
Stride == 29
MaxNow == 29
Horizon == 31
NumStudentIds == 3

\* ------------------------------------------------------- program constants
LoanDays == 14
RenewDays == 14
ReserveDays == 7
MaxRenewals == 2
FinePerDay == 1

Null == 0 - 1

Users == {"u1", "u2", "st", "ad"}
Patrons == {"u1", "u2"}
Librarians == {"u1", "st"}
Clients == {"u1", "u2", "st"}
BookIds == {"b1", "b2"}
Isbns == {"i1", "i2"}
Procs == 1..NumProcs

Role(u) == CASE u = "st" -> "STAFF" [] u = "ad" -> "ADMIN" [] OTHER -> "STUDENT"

\* authorize(...roles) middleware: the caller's role must be one of roles.
Authorize(roles, u) == Role(u) \in roles

Elevated(u) == Role(u) \in {"STAFF", "ADMIN"}

\* people who hold no account yet
Applicants == {"n1", "n2", "n3"}

UserIds == Users \cup Applicants

VARIABLES users, books, borrows, reservations, now, req

vars == <<users, books, borrows, reservations, now, req>>

\* ------------------------------------------------------------------ tables
NoUser == [exists |-> FALSE, role |-> "none", isActive |-> FALSE, studentId |-> Null]

\* a student ID is C<yy>-<nnnn>: the row keeps nnnn, the year standing still
NewUser(role, sid) == [exists |-> TRUE, role |-> role, isActive |-> TRUE, studentId |-> sid]

NoBook == [exists |-> FALSE, isbn |-> "none", totalCopies |-> 0, availableCopies |-> 0]

NewBook(i, n) == [exists |-> TRUE, isbn |-> i, totalCopies |-> n, availableCopies |-> n]

NoBorrow == [userId |-> "none", bookId |-> "none", dueDate |-> 0,
             returnDate |-> Null, status |-> "none", renewalCount |-> 0,
             fineAmount |-> Null]

\* borrowDate, reservationDate, createdAt and updatedAt are written once and read
\* by no rule: the rows keep the columns the handlers read.
NewBorrow(u, b, due) == [userId |-> u, bookId |-> b, dueDate |-> due,
                         returnDate |-> Null, status |-> "ACTIVE", renewalCount |-> 0,
                         fineAmount |-> Null]

NewReservation(u, b, exp) == [userId |-> u, bookId |-> b, expiryDate |-> exp, isActive |-> TRUE]

\* the place of a row that a cascading delete has removed (ids are not reused)
NoReservation == [userId |-> "none", bookId |-> "none", expiryDate |-> 0, isActive |-> FALSE]

HasBorrow(d, i) == i \in DOMAIN d.borrows /\ d.borrows[i] # NoBorrow

HasReservation(d, i) == i \in DOMAIN d.reservations /\ d.reservations[i] # NoReservation

DB == [users |-> users, books |-> books, borrows |-> borrows, reservations |-> reservations]

ActiveBorrowIds(d, u, b) ==
  {i \in DOMAIN d.borrows : /\ d.borrows[i].userId = u
                            /\ d.borrows[i].bookId = b
                            /\ d.borrows[i].status = "ACTIVE"}

ActiveReservationIds(d, u, b) ==
  {i \in DOMAIN d.reservations : /\ d.reservations[i].userId = u
                                 /\ d.reservations[i].bookId = b
                                 /\ d.reservations[i].isActive}

\* ---------------------------------------------------------------- requests
Idle == [op |-> "idle", pc |-> "idle", caller |-> "none", bookId |-> "none", id |-> 0,
         isbn |-> "none", totalCopies |-> 0, date |-> 0, fine |-> 0, resId |-> 0,
         borrow |-> NoBorrow, book |-> NoBook,
         userId |-> "none", isActive |-> FALSE, role |-> "none", studentId |-> Null]

NoResp == [op |-> "none", code |-> 0, error |-> "none", count |-> 0]

\* a step that awaits the next call
Cont(d, r, pc) == [db |-> d, req |-> [r EXCEPT !.pc = pc], done |-> FALSE, resp |-> NoResp]

\* a step that sends the response
Reply(d, r, code, error) ==
  [db |-> d, req |-> r, done |-> TRUE,
   resp |-> [op |-> r.op, code |-> code, error |-> error, count |-> 0]]

\* a 200 response that reports a row count
ReplyCount(d, r, code, n) ==
  [db |-> d, req |-> r, done |-> TRUE,
   resp |-> [op |-> r.op, code |-> code, error |-> "none", count |-> n]]

\* a 200 response that carries rows and their total
ReplyRows(d, r, rows, total) ==
  [db |-> d, req |-> r, done |-> TRUE,
   resp |-> [op |-> r.op, code |-> 200, error |-> "none", count |-> total, rows |-> rows]]

\* ------------------------------------------------------- POST /api/borrows
\* the check a buggy handler would make: rejects only a negative count
Borrow_unavailable_mut(book) == book.availableCopies < 0

Borrow_unavailable(book) == book.availableCopies <= 0

Borrow_findBook(d, r, t) ==
  LET book == d.books[r.bookId] IN
  IF ~book.exists THEN Reply(d, r, 404, "Book not found")
  ELSE IF Borrow_unavailable(book) THEN Reply(d, r, 400, "Book is not available for borrowing")
  ELSE Cont(d, r, "findBorrow")

Borrow_findBorrow(d, r, t) ==
  IF ActiveBorrowIds(d, r.caller, r.bookId) # {}
  THEN Reply(d, r, 400, "You already have this book borrowed")
  ELSE Cont(d, r, "findReservation")

Borrow_findReservation(d, r, t) ==
  LET found == ActiveReservationIds(d, r.caller, r.bookId) IN
  IF found # {}
  THEN Cont(d, [r EXCEPT !.resId = CHOOSE i \in found : TRUE], "updateReservation")
  ELSE Cont(d, [r EXCEPT !.date = t + LoanDays * DayLen], "transaction")

Borrow_updateReservation(d, r, t) ==
  Cont([d EXCEPT !.reservations[r.resId].isActive = FALSE],
       [r EXCEPT !.date = t + LoanDays * DayLen], "transaction")

\* a transaction that creates the borrow and forgets the decrement
Borrow_transaction_mut(d, r, t) ==
  Reply([d EXCEPT !.borrows = Append(@, NewBorrow(r.caller, r.bookId, r.date))],
        r, 201, "none")

Borrow_transaction(d, r, t) ==
  IF ~d.books[r.bookId].exists \/ ~d.users[r.caller].exists
  THEN Reply(d, r, 500, "Failed to borrow book")
  ELSE Reply([d EXCEPT !.borrows = Append(@, NewBorrow(r.caller, r.bookId, r.date)),
                       !.books[r.bookId].availableCopies = @ - 1],
             r, 201, "none")

\* ---------------------------------------------- PUT /api/borrows/:id/return
\* a fine that counts whole days only
CeilDiv_mut(a, b) == a \div b

\* Math.ceil(a / b) for a > 0
CeilDiv(a, b) == (a + b - 1) \div b

FineAt(returnDate, dueDate) ==
  IF returnDate > dueDate THEN CeilDiv(returnDate - dueDate, DayLen) * FinePerDay ELSE 0

\* a handler that forgets the status check
Return_notActive_mut(borrow) == FALSE

Return_notActive(borrow) == borrow.status # "ACTIVE"

\* a route that lets every authenticated role in
Return_roles_mut == {"STAFF", "ADMIN", "STUDENT"}

\* authorize('STAFF', 'ADMIN') on the route
Return_roles == {"STAFF", "ADMIN"}

Return_findBorrow(d, r, t) ==
  IF ~Authorize(Return_roles, r.caller) THEN Reply(d, r, 403, "Insufficient permissions")
  ELSE IF ~HasBorrow(d, r.id) THEN Reply(d, r, 404, "Borrow record not found")
  ELSE LET borrow == d.borrows[r.id] IN
       IF Return_notActive(borrow) THEN Reply(d, r, 400, "Book is already returned")
       ELSE Cont(d, [r EXCEPT !.borrow = borrow, !.bookId = borrow.bookId, !.date = t,
                              !.fine = FineAt(t, borrow.dueDate)], "transaction")

\* a return that hands the copy on by clearing the book's reservations
Return_transaction_mut(d, r, t) ==
  IF ~HasBorrow(d, r.id) \/ ~d.books[r.borrow.bookId].exists
  THEN Reply(d, r, 500, "Failed to return book")
  ELSE Reply([d EXCEPT !.borrows[r.id].status = "RETURNED",
                       !.borrows[r.id].returnDate = r.date,
                       !.borrows[r.id].fineAmount = IF r.fine > 0 THEN r.fine ELSE Null,
                       !.books[r.borrow.bookId].availableCopies = @ + 1,
                       !.reservations =
                          [i \in DOMAIN @ |-> IF @[i].bookId = r.borrow.bookId
                                              THEN [@[i] EXCEPT !.isActive = FALSE] ELSE @[i]]],
             r, 200, "none")

Return_transaction(d, r, t) ==
  IF ~HasBorrow(d, r.id) \/ ~d.books[r.borrow.bookId].exists
  THEN Reply(d, r, 500, "Failed to return book")
  ELSE Reply([d EXCEPT !.borrows[r.id].status = "RETURNED",
                       !.borrows[r.id].returnDate = r.date,
                       !.borrows[r.id].fineAmount = IF r.fine > 0 THEN r.fine ELSE Null,
                       !.books[r.borrow.bookId].availableCopies = @ + 1],
             r, 200, "none")

\* ----------------------------------------------- PUT /api/borrows/:id/renew
\* a renewal that counts the new due date from the current time
Renew_newDueDate_mut(borrow, t) == t + RenewDays * DayLen

Renew_newDueDate(borrow, t) == borrow.dueDate + RenewDays * DayLen

\* a limit check that lets one renewal too many through
Renew_limitReached_mut(borrow) == borrow.renewalCount > MaxRenewals

Renew_limitReached(borrow) == borrow.renewalCount >= MaxRenewals

\* an ownership check that forgets the elevated roles
Renew_forbidden_mut(borrow, u) == borrow.userId # u

Renew_forbidden(borrow, u) == borrow.userId # u /\ ~Elevated(u)

Renew_findBorrow(d, r, t) ==
  IF ~HasBorrow(d, r.id) THEN Reply(d, r, 404, "Borrow record not found")
  ELSE LET borrow == d.borrows[r.id] IN
       IF Renew_forbidden(borrow, r.caller)
       THEN Reply(d, r, 403, "Insufficient permissions")
       ELSE IF borrow.status # "ACTIVE" THEN Reply(d, r, 400, "Cannot renew returned book")
       ELSE IF Renew_limitReached(borrow) THEN Reply(d, r, 400, "Maximum renewal limit reached")
       ELSE Cont(d, [r EXCEPT !.borrow = borrow, !.bookId = borrow.bookId], "findReservation")

\* a query without the  userId: { not: borrow.userId }  filter
OtherActiveReservations_mut(d, b, u) ==
  {i \in DOMAIN d.reservations : d.reservations[i].bookId = b /\ d.reservations[i].isActive}

OtherActiveReservations(d, b, u) ==
  {i \in DOMAIN d.reservations : /\ d.reservations[i].bookId = b
                                 /\ d.reservations[i].isActive
                                 /\ d.reservations[i].userId # u}

Renew_findReservation(d, r, t) ==
  IF OtherActiveReservations(d, r.borrow.bookId, r.borrow.userId) # {}
  THEN Reply(d, r, 400, "Book has active reservations, cannot renew")
  ELSE Cont(d, [r EXCEPT !.date = Renew_newDueDate(r.borrow, t)], "update")

\* a renewal that books the copy back in, as a return does
Renew_update_mut(d, r, t) ==
  IF ~HasBorrow(d, r.id) THEN Reply(d, r, 500, "Failed to renew book")
  ELSE Reply([d EXCEPT !.borrows[r.id].dueDate = r.date,
                       !.borrows[r.id].renewalCount = @ + 1,
                       !.books[r.borrow.bookId].availableCopies = @ + 1],
             r, 200, "none")

Renew_update(d, r, t) ==
  IF ~HasBorrow(d, r.id) THEN Reply(d, r, 500, "Failed to renew book")
  ELSE Reply([d EXCEPT !.borrows[r.id].dueDate = r.date,
                       !.borrows[r.id].renewalCount = @ + 1],
             r, 200, "none")

\* -------------------------------------------------- POST /api/reservations
\* a check that still takes a reservation while one copy is left
Reserve_available_mut(book) == book.availableCopies > 1

Reserve_available(book) == book.availableCopies > 0

Reserve_findBook(d, r, t) ==
  LET book == d.books[r.bookId] IN
  IF ~book.exists THEN Reply(d, r, 404, "Book not found")
  ELSE IF Reserve_available(book)
  THEN Reply(d, r, 400, "Book is available, you can borrow it directly")
  ELSE Cont(d, r, "findReservation")

\* a check that no longer counts a reservation past its expiry date
Reserve_findReservation_mut(d, r, t) ==
  IF {i \in ActiveReservationIds(d, r.caller, r.bookId) : d.reservations[i].expiryDate >= t} # {}
  THEN Reply(d, r, 400, "You already have an active reservation for this book")
  ELSE Cont(d, r, "findBorrow")

Reserve_findReservation(d, r, t) ==
  IF ActiveReservationIds(d, r.caller, r.bookId) # {}
  THEN Reply(d, r, 400, "You already have an active reservation for this book")
  ELSE Cont(d, r, "findBorrow")

Reserve_findBorrow(d, r, t) ==
  IF ActiveBorrowIds(d, r.caller, r.bookId) # {}
  THEN Reply(d, r, 400, "You already have this book borrowed")
  ELSE Cont(d, [r EXCEPT !.date = t + ReserveDays * DayLen], "create")

\* a table without the unique index
ReservationKeyTaken_mut(d, u, b) == FALSE

\* UNIQUE INDEX reservations_userId_bookId_key: one row per (userId, bookId)
ReservationKeyTaken(d, u, b) ==
  \E i \in DOMAIN d.reservations : d.reservations[i].userId = u /\ d.reservations[i].bookId = b

Reserve_create(d, r, t) ==
  IF \/ ReservationKeyTaken(d, r.caller, r.bookId)
     \/ ~d.books[r.bookId].exists
     \/ ~d.users[r.caller].exists
  THEN Reply(d, r, 500, "Failed to create reservation")
  ELSE Reply([d EXCEPT !.reservations = Append(@, NewReservation(r.caller, r.bookId, r.date))],
             r, 201, "none")

\* ------------------------------------------- DELETE /api/reservations/:id
Cancel_forbidden(reservation, u) == reservation.userId # u /\ ~Elevated(u)

Cancel_findReservation(d, r, t) ==
  IF ~HasReservation(d, r.id) THEN Reply(d, r, 404, "Reservation not found")
  ELSE IF Cancel_forbidden(d.reservations[r.id], r.caller)
  THEN Reply(d, r, 403, "Insufficient permissions")
  ELSE Cont(d, r, "update")

\* an update that flips the flag instead of clearing it
Cancel_update_mut(d, r, t) ==
  IF ~HasReservation(d, r.id) THEN Reply(d, r, 500, "Failed to cancel reservation")
  ELSE Reply([d EXCEPT !.reservations[r.id].isActive = ~@], r, 200, "none")

Cancel_update(d, r, t) ==
  IF ~HasReservation(d, r.id) THEN Reply(d, r, 500, "Failed to cancel reservation")
  ELSE Reply([d EXCEPT !.reservations[r.id].isActive = FALSE], r, 200, "none")

\* ------------------------------------ PUT /api/reservations/cleanup-expired
\* a sweep that also takes the reservations expiring at this very instant
Expired_mut(d, t) ==
  {i \in DOMAIN d.reservations : d.reservations[i].isActive /\ d.reservations[i].expiryDate <= t}

Expired(d, t) ==
  {i \in DOMAIN d.reservations : d.reservations[i].isActive /\ d.reservations[i].expiryDate < t}

Cleanup_updateMany(d, r, t) ==
  IF ~Authorize({"STAFF", "ADMIN"}, r.caller) THEN Reply(d, r, 403, "Insufficient permissions")
  ELSE ReplyCount([d EXCEPT !.reservations =
                      [i \in DOMAIN @ |-> IF i \in Expired(d, t)
                                          THEN [@[i] EXCEPT !.isActive = FALSE] ELSE @[i]]],
                  r, 200, Cardinality(Expired(d, t)))

\* ------------------------------------------------ GET /api/borrows/overdue
\* a projection that counts whole days only
Overdue_daysOverdue_mut(borrow, t) == (t - borrow.dueDate) \div DayLen

Overdue_daysOverdue(borrow, t) == CeilDiv(t - borrow.dueDate, DayLen)

\* The rows are selected at time t; the fines are projected by a second
\* new Date(), r.lag ticks later.  The order of the rows (dueDate asc) is not
\* represented: the response is the set of rows.
Overdue_findMany(d, r, t) ==
  IF ~Authorize({"STAFF", "ADMIN"}, r.caller) THEN Reply(d, r, 403, "Insufficient permissions")
  ELSE LET overdueBorrows == {i \in DOMAIN d.borrows : /\ d.borrows[i].status = "ACTIVE"
                                                        /\ d.borrows[i].dueDate < t}
       IN ReplyRows(d, r,
                    {[id |-> i, borrow |-> d.borrows[i],
                      daysOverdue |-> Overdue_daysOverdue(d.borrows[i], t + r.lag),
                      calculatedFine |-> Overdue_daysOverdue(d.borrows[i], t + r.lag) * FinePerDay]
                       : i \in overdueBorrows},
                    Cardinality(overdueBorrows))

\* ---------------------------- GET /api/borrows and GET /api/reservations
\* the ids of S, highest first.  Ids count in the order of creation, so this is
\* the default order of both lists (borrowDate / reservationDate, desc).
RECURSIVE SortDesc(_)
SortDesc(S) ==
  IF S = {} THEN <<>>
  ELSE LET m == CHOOSE x \in S : \A y \in S : y <= x IN <<m>> \o SortDesc(S \ {m})

\* skip (page - 1) * limit rows, take limit
Page(ids, page, limit) ==
  LET skip == (page - 1) * limit
      last == IF skip + limit <= Len(ids) THEN skip + limit ELSE Len(ids)
  IN SubSeq(ids, skip + 1, last)

\* a where clause in which the userId of the query replaces the caller's own
ListBorrows_where_mut(row, u, q) ==
  /\ (q.status # "" => row.status = q.status)
  /\ IF q.userId # "" THEN row.userId = q.userId ELSE (Role(u) = "STUDENT" => row.userId = u)

ListBorrows_where(row, u, q) ==
  /\ (q.status # "" => row.status = q.status)
  /\ (q.userId # "" => row.userId = q.userId)
  /\ (Role(u) = "STUDENT" => row.userId = u)

ListBorrows_findMany(d, r, t) ==
  LET found == {i \in DOMAIN d.borrows : HasBorrow(d, i) /\ ListBorrows_where(d.borrows[i], r.caller, r.query)}
      ids == Page(SortDesc(found), r.query.page, r.query.limit)
  IN ReplyRows(d, r,
               [k \in DOMAIN ids |->
                  [id |-> ids[k], borrow |-> d.borrows[ids[k]],
                   book |-> [id |-> d.borrows[ids[k]].bookId,
                             isbn |-> d.books[d.borrows[ids[k]].bookId].isbn]]],
               Cardinality(found))

ListReservations_where(row, u, q) ==
  /\ (q.isActive # "" => row.isActive = (q.isActive = "true"))
  /\ (q.userId # "" => row.userId = q.userId)
  /\ (Role(u) = "STUDENT" => row.userId = u)

ListReservations_findMany(d, r, t) ==
  LET found == {i \in DOMAIN d.reservations : HasReservation(d, i) /\
                  ListReservations_where(d.reservations[i], r.caller, r.query)}
      ids == Page(SortDesc(found), r.query.page, r.query.limit)
  IN ReplyRows(d, r,
               [k \in DOMAIN ids |->
                  [id |-> ids[k], reservation |-> d.reservations[ids[k]],
                   book |-> [id |-> d.reservations[ids[k]].bookId,
                             isbn |-> d.books[d.reservations[ids[k]].bookId].isbn,
                             availableCopies |->
                               d.books[d.reservations[ids[k]].bookId].availableCopies]]],
               Cardinality(found))

\* ------------------------------------------------------- POST /api/books
IsbnTaken(d, isbn, except) ==
  \E b \in BookIds : b # except /\ d.books[b].exists /\ d.books[b].isbn = isbn

CreateBook_findIsbn(d, r, t) ==
  IF ~Authorize({"STAFF", "ADMIN"}, r.caller) THEN Reply(d, r, 403, "Insufficient permissions")
  ELSE IF r.totalCopies < 1 THEN Reply(d, r, 400, "Total copies must be at least 1")
  ELSE IF IsbnTaken(d, r.isbn, "none") THEN Reply(d, r, 409, "Book with this ISBN already exists")
  ELSE Cont(d, r, "create")

\* r.bookId is the id the database gives the new row
CreateBook_create(d, r, t) ==
  IF IsbnTaken(d, r.isbn, "none") \/ d.books[r.bookId].exists
  THEN Reply(d, r, 500, "Failed to create book")
  ELSE Reply([d EXCEPT !.books[r.bookId] = NewBook(r.isbn, r.totalCopies)], r, 201, "none")

\* --------------------------------------------------- PUT /api/books/:id
Max(a, b) == IF a >= b THEN a ELSE b

UpdateBook_findBook(d, r, t) ==
  IF ~Authorize({"STAFF", "ADMIN"}, r.caller) THEN Reply(d, r, 403, "Insufficient permissions")
  ELSE IF r.totalCopies < 1 THEN Reply(d, r, 400, "Total copies must be at least 1")
  ELSE IF ~d.books[r.bookId].exists THEN Reply(d, r, 404, "Book not found")
  ELSE Cont(d, [r EXCEPT !.book = d.books[r.bookId]], "findIsbn")

UpdateBook_newAvailable(existingBook, totalCopies) ==
  LET currentBorrowed == existingBook.totalCopies - existingBook.availableCopies
  IN Max(0, totalCopies - currentBorrowed)

UpdateBook_findIsbn(d, r, t) ==
  IF IsbnTaken(d, r.isbn, r.bookId) THEN Reply(d, r, 409, "Book with this ISBN already exists")
  ELSE Cont(d, [r EXCEPT !.fine = UpdateBook_newAvailable(r.book, r.totalCopies)], "update")

UpdateBook_update(d, r, t) ==
  IF ~d.books[r.bookId].exists \/ IsbnTaken(d, r.isbn, r.bookId)
  THEN Reply(d, r, 500, "Failed to update book")
  ELSE Reply([d EXCEPT !.books[r.bookId].isbn = r.isbn,
                       !.books[r.bookId].totalCopies = r.totalCopies,
                       !.books[r.bookId].availableCopies = r.fine],
             r, 200, "none")

\* ------------------------------------------------- DELETE /api/books/:id
\* ON DELETE CASCADE of borrows_bookId_fkey and reservations_bookId_fkey
CascadeBook(d, b) ==
  [d EXCEPT !.books[b] = NoBook,
            !.borrows = [i \in DOMAIN @ |-> IF @[i].bookId = b THEN NoBorrow ELSE @[i]],
            !.reservations = [i \in DOMAIN @ |-> IF @[i].bookId = b THEN NoReservation ELSE @[i]]]

BookActiveBorrows(d, b) ==
  {i \in DOMAIN d.borrows : d.borrows[i].bookId = b /\ d.borrows[i].status = "ACTIVE"}

BookActiveReservations(d, b) ==
  {i \in DOMAIN d.reservations : d.reservations[i].bookId = b /\ d.reservations[i].isActive}

\* a guard that looks at the borrows only
DeleteBook_inUse_mut(d, b) == BookActiveBorrows(d, b) # {}

DeleteBook_inUse(d, b) == BookActiveBorrows(d, b) # {} \/ BookActiveReservations(d, b) # {}

DeleteBook_findBook(d, r, t) ==
  IF ~Authorize({"STAFF", "ADMIN"}, r.caller) THEN Reply(d, r, 403, "Insufficient permissions")
  ELSE IF ~d.books[r.bookId].exists THEN Reply(d, r, 404, "Book not found")
  ELSE IF DeleteBook_inUse(d, r.bookId)
  THEN Reply(d, r, 400, "Cannot delete book with active borrows or reservations")
  ELSE Cont(d, r, "delete")

DeleteBook_delete(d, r, t) ==
  IF ~d.books[r.bookId].exists THEN Reply(d, r, 500, "Failed to delete book")
  ELSE Reply(CascadeBook(d, r.bookId), r, 200, "none")

\* ------------------------------------------------ PUT /api/users/:id/status
UserStatus_isAdmin(user) == user.role = "ADMIN"

UserStatus_findUser(d, r, t) ==
  IF ~Authorize({"ADMIN"}, r.caller) THEN Reply(d, r, 403, "Insufficient permissions")
  ELSE IF ~d.users[r.userId].exists THEN Reply(d, r, 404, "User not found")
  ELSE IF UserStatus_isAdmin(d.users[r.userId])
  THEN Reply(d, r, 400, "Cannot modify admin user status")
  ELSE Cont(d, r, "update")

UserStatus_update(d, r, t) ==
  IF ~d.users[r.userId].exists THEN Reply(d, r, 500, "Failed to update user status")
  ELSE Reply([d EXCEPT !.users[r.userId].isActive = r.isActive], r, 200, "none")

\* --------------------------------------------------- DELETE /api/users/:id
\* ON DELETE CASCADE of borrows_userId_fkey and reservations_userId_fkey
CascadeUser(d, u) ==
  [d EXCEPT !.users[u] = NoUser,
            !.borrows = [i \in DOMAIN @ |-> IF @[i].userId = u THEN NoBorrow ELSE @[i]],
            !.reservations = [i \in DOMAIN @ |-> IF @[i].userId = u THEN NoReservation ELSE @[i]]]

UserActiveBorrows(d, u) ==
  {i \in DOMAIN d.borrows : d.borrows[i].userId = u /\ d.borrows[i].status = "ACTIVE"}

\* a handler that lets an administrator be deleted
DeleteUser_isAdmin_mut(user) == FALSE

DeleteUser_isAdmin(user) == user.role = "ADMIN"

DeleteUser_findUser(d, r, t) ==
  IF ~Authorize({"ADMIN"}, r.caller) THEN Reply(d, r, 403, "Insufficient permissions")
  ELSE IF ~d.users[r.userId].exists THEN Reply(d, r, 404, "User not found")
  ELSE IF DeleteUser_isAdmin(d.users[r.userId])
  THEN Reply(d, r, 400, "Cannot delete admin user")
  ELSE IF UserActiveBorrows(d, r.userId) # {}
  THEN Reply(d, r, 400, "Cannot delete user with active borrows")
  ELSE Cont(d, r, "delete")

DeleteUser_delete(d, r, t) ==
  IF ~d.users[r.userId].exists THEN Reply(d, r, 500, "Failed to delete user")
  ELSE Reply(CascadeUser(d, r.userId), r, 200, "none")

\* ------------------------------------------------ POST /api/auth/register
\* the numbers generateStudentId() can return: Math.floor(Math.random() * 9999),
\* here NumStudentIds of them
GenerateStudentId == 0..(NumStudentIds - 1)

\* prisma.user.findUnique({ where: { studentId } }) finds a row
StudentIdTaken(d, n) == \E u \in UserIds : d.users[u].exists /\ d.users[u].studentId = n

\* r.userId is the person registering, known to the table by the email
Register_findEmail(d, r, t) ==
  IF r.role \notin {"STUDENT", "STAFF"} THEN Reply(d, r, 400, "Role must be either STUDENT or STAFF")
  ELSE IF d.users[r.userId].exists THEN Reply(d, r, 409, "Email already registered")
  ELSE Cont(d, r, "hashPassword")

\* n is the number the next call of generateStudentId() returns
Register_hashPassword(d, r, t, n) ==
  IF r.role = "STUDENT" THEN Cont(d, [r EXCEPT !.studentId = n], "findStudentId")
  ELSE Cont(d, r, "create")

Register_findStudentId(d, r, t, n) ==
  IF StudentIdTaken(d, r.studentId) THEN Cont(d, [r EXCEPT !.studentId = n], "findStudentId")
  ELSE Cont(d, r, "create")

\* users_email_key and users_studentId_key
Register_create(d, r, t) ==
  IF d.users[r.userId].exists \/ (r.studentId # Null /\ StudentIdTaken(d, r.studentId))
  THEN Reply(d, r, 500, "Registration failed")
  ELSE Reply([d EXCEPT !.users[r.userId] = NewUser(r.role, r.studentId)], r, 201, "none")

Register_step(d, r, t, n) ==
  CASE r.pc = "findEmail" -> Register_findEmail(d, r, t)
    [] r.pc = "hashPassword" -> Register_hashPassword(d, r, t, n)
    [] r.pc = "findStudentId" -> Register_findStudentId(d, r, t, n)
    [] r.pc = "create" -> Register_create(d, r, t)


\* ------------------------------------------------------------ dispatching
Step(d, r, t) ==
  CASE r.op = "borrow" /\ r.pc = "findBook" -> Borrow_findBook(d, r, t)
    [] r.op = "borrow" /\ r.pc = "findBorrow" -> Borrow_findBorrow(d, r, t)
    [] r.op = "borrow" /\ r.pc = "findReservation" -> Borrow_findReservation(d, r, t)
    [] r.op = "borrow" /\ r.pc = "updateReservation" -> Borrow_updateReservation(d, r, t)
    [] r.op = "borrow" /\ r.pc = "transaction" -> Borrow_transaction(d, r, t)
    [] r.op = "return" /\ r.pc = "findBorrow" -> Return_findBorrow(d, r, t)
    [] r.op = "return" /\ r.pc = "transaction" -> Return_transaction(d, r, t)
    [] r.op = "renew" /\ r.pc = "findBorrow" -> Renew_findBorrow(d, r, t)
    [] r.op = "renew" /\ r.pc = "findReservation" -> Renew_findReservation(d, r, t)
    [] r.op = "renew" /\ r.pc = "update" -> Renew_update(d, r, t)
    [] r.op = "reserve" /\ r.pc = "findBook" -> Reserve_findBook(d, r, t)
    [] r.op = "reserve" /\ r.pc = "findReservation" -> Reserve_findReservation(d, r, t)
    [] r.op = "reserve" /\ r.pc = "findBorrow" -> Reserve_findBorrow(d, r, t)
    [] r.op = "reserve" /\ r.pc = "create" -> Reserve_create(d, r, t)
    [] r.op = "cancel" /\ r.pc = "findReservation" -> Cancel_findReservation(d, r, t)
    [] r.op = "cancel" /\ r.pc = "update" -> Cancel_update(d, r, t)
    [] r.op = "cleanup" /\ r.pc = "updateMany" -> Cleanup_updateMany(d, r, t)
    [] r.op = "overdue" /\ r.pc = "findMany" -> Overdue_findMany(d, r, t)
    [] r.op = "listBorrows" /\ r.pc = "findMany" -> ListBorrows_findMany(d, r, t)
    [] r.op = "listReservations" /\ r.pc = "findMany" -> ListReservations_findMany(d, r, t)
    [] r.op = "createBook" /\ r.pc = "findIsbn" -> CreateBook_findIsbn(d, r, t)
    [] r.op = "createBook" /\ r.pc = "create" -> CreateBook_create(d, r, t)
    [] r.op = "updateBook" /\ r.pc = "findBook" -> UpdateBook_findBook(d, r, t)
    [] r.op = "updateBook" /\ r.pc = "findIsbn" -> UpdateBook_findIsbn(d, r, t)
    [] r.op = "updateBook" /\ r.pc = "update" -> UpdateBook_update(d, r, t)
    [] r.op = "deleteBook" /\ r.pc = "findBook" -> DeleteBook_findBook(d, r, t)
    [] r.op = "deleteBook" /\ r.pc = "delete" -> DeleteBook_delete(d, r, t)
    [] r.op = "userStatus" /\ r.pc = "findUser" -> UserStatus_findUser(d, r, t)
    [] r.op = "userStatus" /\ r.pc = "update" -> UserStatus_update(d, r, t)
    [] r.op = "deleteUser" /\ r.pc = "findUser" -> DeleteUser_findUser(d, r, t)
    [] r.op = "deleteUser" /\ r.pc = "delete" -> DeleteUser_delete(d, r, t)

RECURSIVE Run(_, _, _)
Run(d, r, t) ==
  LET s == Step(d, r, t) IN IF s.done THEN s ELSE Run(s.db, s.req, t)

BorrowReq(u, b) == [Idle EXCEPT !.op = "borrow", !.pc = "findBook", !.caller = u, !.bookId = b]

ReturnReq(u, i) == [Idle EXCEPT !.op = "return", !.pc = "findBorrow", !.caller = u, !.id = i]

RenewReq(u, i) == [Idle EXCEPT !.op = "renew", !.pc = "findBorrow", !.caller = u, !.id = i]

ReserveReq(u, b) == [Idle EXCEPT !.op = "reserve", !.pc = "findBook", !.caller = u, !.bookId = b]

CancelReq(u, i) == [Idle EXCEPT !.op = "cancel", !.pc = "findReservation", !.caller = u, !.id = i]

CleanupReq(u) == [Idle EXCEPT !.op = "cleanup", !.pc = "updateMany", !.caller = u]

OverdueReq(u, lag) == [op |-> "overdue", pc |-> "findMany", caller |-> u, lag |-> lag]

ListBorrowsReq(u, q) == [op |-> "listBorrows", pc |-> "findMany", caller |-> u, query |-> q]

ListReservationsReq(u, q) ==
  [op |-> "listReservations", pc |-> "findMany", caller |-> u, query |-> q]

\* the query strings of the two lists: a filter, a userId, a page and a limit
\* ("" is a parameter left out; 10 is the default limit)
BorrowQueries ==
  [status : {"", "ACTIVE"}, userId : {""} \cup Patrons, page : 1..2, limit : {1, 10}]

ReservationQueries ==
  [isActive : {"", "true"}, userId : {""} \cup Patrons, page : 1..2, limit : {1, 10}]

DeleteBookReq(u, b) ==
  [Idle EXCEPT !.op = "deleteBook", !.pc = "findBook", !.caller = u, !.bookId = b]

UserStatusReq(u, id, isActive) ==
  [Idle EXCEPT !.op = "userStatus", !.pc = "findUser", !.caller = u, !.userId = id,
               !.isActive = isActive]

DeleteUserReq(u, id) ==
  [Idle EXCEPT !.op = "deleteUser", !.pc = "findUser", !.caller = u, !.userId = id]

RegisterReq(a, role) ==
  [Idle EXCEPT !.op = "register", !.pc = "findEmail", !.userId = a, !.role = role]

CreateBookReq(u, b, isbn, n) ==
  [Idle EXCEPT !.op = "createBook", !.pc = "findIsbn", !.caller = u, !.bookId = b,
               !.isbn = isbn, !.totalCopies = n]

UpdateBookReq(u, b, isbn, n) ==
  [Idle EXCEPT !.op = "updateBook", !.pc = "findBook", !.caller = u, !.bookId = b,
               !.isbn = isbn, !.totalCopies = n]

\* ------------------------------------------------------------------ state
IsbnOf(b) == IF b = "b1" THEN "i1" ELSE "i2"

\* the accounts the library starts with: an administrator, a librarian and
\* two students, each student holding a student ID of the current year
SeedUsers ==
  [u \in UserIds |-> CASE u = "u1" -> NewUser("STUDENT", 0)
                      [] u = "u2" -> NewUser("STUDENT", 1)
                      [] u \in {"st", "ad"} -> NewUser(Role(u), Null)
                      [] OTHER -> NoUser]

Init ==
  /\ \E n \in 1..MaxCopies :
       books = [b \in BookIds |-> IF b = "b1" THEN NewBook(IsbnOf(b), n) ELSE NoBook]
  /\ users = SeedUsers
  /\ borrows = <<>>
  /\ reservations = <<>>
  /\ now = 0
  /\ req = [p \in Procs |-> Idle]

Advance ==
  /\ now + Stride <= MaxNow
  /\ now' = now + Stride
  /\ UNCHANGED <<users, books, borrows, reservations, req>>

\* ------------------------------------------------ interleaved requests
InFlight(op) == Cardinality({p \in Procs : req[p].op = op})

\* the slot a new request takes: the lowest idle one
Free(p) == req[p] = Idle /\ \A q \in Procs : q < p => req[q] # Idle

\* One step of the request in slot p.  The response of its last step goes to
\* the client; the server keeps none of it.
Apply(p, s) ==
  /\ users' = s.db.users
  /\ books' = s.db.books
  /\ borrows' = s.db.borrows
  /\ reservations' = s.db.reservations
  /\ req' = [req EXCEPT ![p] = IF s.done THEN Idle ELSE s.req]
  /\ UNCHANGED now

At(p, op, pc) == req[p].op = op /\ req[p].pc = pc

\* a request arrives and runs up to its first awaited call
BorrowFindBook(p, u, b) ==
  /\ Free(p)
  /\ Len(borrows) + InFlight("borrow") < MaxBorrows
  /\ Apply(p, Borrow_findBook(DB, BorrowReq(u, b), now))

BorrowFindBorrow(p) == At(p, "borrow", "findBorrow") /\ Apply(p, Borrow_findBorrow(DB, req[p], now))

BorrowFindReservation(p) ==
  At(p, "borrow", "findReservation") /\ Apply(p, Borrow_findReservation(DB, req[p], now))

BorrowUpdateReservation(p) ==
  At(p, "borrow", "updateReservation") /\ Apply(p, Borrow_updateReservation(DB, req[p], now))

BorrowTransaction(p) ==
  At(p, "borrow", "transaction") /\ Apply(p, Borrow_transaction(DB, req[p], now))

ReturnFindBorrow(p, u, i) == Free(p) /\ Apply(p, Return_findBorrow(DB, ReturnReq(u, i), now))

ReturnTransaction(p) ==
  At(p, "return", "transaction") /\ Apply(p, Return_transaction(DB, req[p], now))

RenewFindBorrow(p, u, i) == Free(p) /\ Apply(p, Renew_findBorrow(DB, RenewReq(u, i), now))

RenewFindReservation(p) ==
  At(p, "renew", "findReservation") /\ Apply(p, Renew_findReservation(DB, req[p], now))

RenewUpdate(p) == At(p, "renew", "update") /\ Apply(p, Renew_update(DB, req[p], now))

ReserveFindBook(p, u, b) ==
  /\ Free(p)
  /\ Len(reservations) + InFlight("reserve") < MaxReservations
  /\ Apply(p, Reserve_findBook(DB, ReserveReq(u, b), now))

ReserveFindReservation(p) ==
  At(p, "reserve", "findReservation") /\ Apply(p, Reserve_findReservation(DB, req[p], now))

ReserveFindBorrow(p) ==
  At(p, "reserve", "findBorrow") /\ Apply(p, Reserve_findBorrow(DB, req[p], now))

ReserveCreate(p) == At(p, "reserve", "create") /\ Apply(p, Reserve_create(DB, req[p], now))

CancelFindReservation(p, u, i) ==
  Free(p) /\ Apply(p, Cancel_findReservation(DB, CancelReq(u, i), now))

CancelUpdate(p) == At(p, "cancel", "update") /\ Apply(p, Cancel_update(DB, req[p], now))

CleanupUpdateMany(p, u) == Free(p) /\ Apply(p, Cleanup_updateMany(DB, CleanupReq(u), now))

Next ==
  \/ \E p \in Procs, u \in Patrons, b \in BookIds : BorrowFindBook(p, u, b)
  \/ \E p \in Procs : BorrowFindBorrow(p)
  \/ \E p \in Procs : BorrowFindReservation(p)
  \/ \E p \in Procs : BorrowUpdateReservation(p)
  \/ \E p \in Procs : BorrowTransaction(p)
  \/ \E p \in Procs, u \in Clients, i \in 1..MaxBorrows : ReturnFindBorrow(p, u, i)
  \/ \E p \in Procs : ReturnTransaction(p)
  \/ \E p \in Procs, u \in Clients, i \in 1..MaxBorrows : RenewFindBorrow(p, u, i)
  \/ \E p \in Procs : RenewFindReservation(p)
  \/ \E p \in Procs : RenewUpdate(p)
  \/ \E p \in Procs, u \in Patrons, b \in BookIds : ReserveFindBook(p, u, b)
  \/ \E p \in Procs : ReserveFindReservation(p)
  \/ \E p \in Procs : ReserveFindBorrow(p)
  \/ \E p \in Procs : ReserveCreate(p)
  \/ \E p \in Procs, u \in Clients, i \in 1..MaxReservations : CancelFindReservation(p, u, i)
  \/ \E p \in Procs : CancelUpdate(p)
  \/ \E p \in Procs, u \in Clients : CleanupUpdateMany(p, u)

Spec == Init /\ [][Next]_vars

\* the requests that create and consume reservations, interleaved: borrow,
\* reserve and cancel
RaceNext ==
  \/ \E p \in Procs, u \in Patrons, b \in BookIds : BorrowFindBook(p, u, b)
  \/ \E p \in Procs : BorrowFindBorrow(p)
  \/ \E p \in Procs : BorrowFindReservation(p)
  \/ \E p \in Procs : BorrowUpdateReservation(p)
  \/ \E p \in Procs : BorrowTransaction(p)
  \/ \E p \in Procs, u \in Patrons, b \in BookIds : ReserveFindBook(p, u, b)
  \/ \E p \in Procs : ReserveFindReservation(p)
  \/ \E p \in Procs : ReserveFindBorrow(p)
  \/ \E p \in Procs : ReserveCreate(p)
  \/ \E p \in Procs, u \in Clients, i \in 1..MaxReservations : CancelFindReservation(p, u, i)
  \/ \E p \in Procs : CancelUpdate(p)

RaceSpec == Init /\ [][RaceNext]_vars

\* ---------------------------------------------- interleaved registrations
RegisterFindEmail(p, a, role) ==
  /\ Free(p)
  /\ Apply(p, Register_findEmail(DB, RegisterReq(a, role), now))

\* the request in slot p is about to call generateStudentId()
Drawing(p) ==
  \/ At(p, "register", "hashPassword") /\ req[p].role = "STUDENT"
  \/ At(p, "register", "findStudentId") /\ StudentIdTaken(DB, req[p].studentId)

\* a step that ends with generateStudentId() returning n
RegisterDraw(p, n) == Drawing(p) /\ Apply(p, Register_step(DB, req[p], now, n))

\* a step that draws nothing
RegisterProceed(p) ==
  /\ req[p].op = "register"
  /\ ~Drawing(p)
  /\ Apply(p, Register_step(DB, req[p], now, Null))

RegisterNext ==
  \/ \E p \in Procs, a \in Applicants \cup {"u1"}, role \in {"STUDENT", "STAFF"} :
       RegisterFindEmail(p, a, role)
  \/ \E p \in Procs, n \in GenerateStudentId : RegisterDraw(p, n)
  \/ \E p \in Procs : RegisterProceed(p)

\* The event loop runs every pending continuation (weak fairness on the steps);
\* Math.random() is fair: a request that draws again and again draws every
\* number (strong fairness on each number).
RegisterSpec ==
  /\ Init
  /\ [][RegisterNext]_vars
  /\ \A p \in Procs : WF_vars(RegisterProceed(p))
  /\ \A p \in Procs : \A n \in GenerateStudentId : SF_vars(RegisterDraw(p, n))

\* -------------------------------------------- requests served one by one
SeqInit ==
  /\ books \in [BookIds -> {NoBook} \cup UNION {{NewBook(i, n) : n \in 1..MaxCopies} : i \in Isbns}]
  /\ \A b \in BookIds : books[b].exists => books[b].isbn = IsbnOf(b)
  /\ users = SeedUsers
  /\ borrows = <<>>
  /\ reservations = <<>>
  /\ now = 0
  /\ req = [p \in Procs |-> Idle]

\* the whole handler, from the request to its response
Serve(r) ==
  LET s == Run(DB, r, now) IN
  /\ users' = s.db.users
  /\ books' = s.db.books
  /\ borrows' = s.db.borrows
  /\ reservations' = s.db.reservations
  /\ UNCHANGED <<now, req>>

\* no request is in flight
Quiet == \A p \in Procs : req[p] = Idle

\* max bounds the rows of the table
Borrow(u, b, max) == Quiet /\ Len(borrows) < max /\ Serve(BorrowReq(u, b))

Return(u, i) == Quiet /\ Serve(ReturnReq(u, i))

Renew(u, i) == Quiet /\ Serve(RenewReq(u, i))

Reserve(u, b, max) == Quiet /\ Len(reservations) < max /\ Serve(ReserveReq(u, b))

Cancel(u, i) == Quiet /\ Serve(CancelReq(u, i))

Cleanup(u) == Quiet /\ Serve(CleanupReq(u))

\* b is the id the database gives the new row: one no row has
CreateBook(u, b, isbn, n) == Quiet /\ ~books[b].exists /\ Serve(CreateBookReq(u, b, isbn, n))

UpdateBook(u, b, isbn, n) == Quiet /\ Serve(UpdateBookReq(u, b, isbn, n))

SeqNext ==
  \/ \E u \in Patrons, b \in BookIds : Borrow(u, b, MaxBorrows)
  \/ \E u \in Users, i \in 1..MaxBorrows : Return(u, i)
  \/ \E u \in Users, i \in 1..MaxBorrows : Renew(u, i)
  \/ \E u \in Patrons, b \in BookIds : Reserve(u, b, MaxReservations)
  \/ \E u \in Users, i \in 1..MaxReservations : Cancel(u, i)
  \/ \E u \in Users : Cleanup(u)
  \/ \E u \in Librarians, b \in BookIds, isbn \in Isbns, n \in 0..MaxCopies :
       CreateBook(u, b, isbn, n)
  \/ \E u \in Librarians, b \in BookIds, isbn \in Isbns, n \in 0..MaxCopies :
       UpdateBook(u, b, isbn, n)

SeqSpec == SeqInit /\ [][SeqNext]_vars

\* the lending operations with the clock advancing; the dates multiply the
\* rows, so the tables are bounded more tightly
TimedNext ==
  \/ Advance
  \/ \E u \in Patrons, b \in BookIds : Borrow(u, b, ClockBorrows)
  \/ \E u \in Users, i \in 1..MaxBorrows : Return(u, i)
  \/ \E u \in Users, i \in 1..MaxBorrows : Renew(u, i)
  \/ \E u \in Patrons, b \in BookIds : Reserve(u, b, ClockReservations)
  \/ \E u \in Users, i \in 1..MaxReservations : Cancel(u, i)
  \/ \E u \in Users : Cleanup(u)

TimedSpec == SeqInit /\ [][TimedNext]_vars

\* borrow and return only
BRNext ==
  \/ Advance
  \/ \E u \in Patrons, b \in BookIds : Borrow(u, b, MaxBorrows)
  \/ \E u \in Users, i \in 1..MaxBorrows : Return(u, i)

BRSpec == SeqInit /\ [][BRNext]_vars

\* borrow, return and the reservation endpoints with the clock advancing:
\* reservations made at different times, consumed, cancelled and swept
HoldNext ==
  \/ Advance
  \/ \E u \in Patrons, b \in BookIds : Borrow(u, b, MaxBorrows)
  \/ \E i \in 1..MaxBorrows : Return("st", i)
  \/ \E u \in Patrons, b \in BookIds : Reserve(u, b, MaxReservations)
  \/ \E u \in Patrons, i \in 1..MaxReservations : Cancel(u, i)
  \/ Cleanup("st")

HoldSpec == SeqInit /\ [][HoldNext]_vars

Overdue(u, lag) == Quiet /\ Serve(OverdueReq(u, lag))

ListBorrows(u, q) == Quiet /\ Serve(ListBorrowsReq(u, q))

ListReservations(u, q) == Quiet /\ Serve(ListReservationsReq(u, q))

\* borrow and return with the clock advancing, and the overdue query
OverdueNext ==
  \/ BRNext
  \/ \E u \in Librarians, lag \in 0..1 : Overdue(u, lag)

OverdueSpec == SeqInit /\ [][OverdueNext]_vars

\* borrow, return, reserve and cancel, the clock standing still, and the two lists
ListNext ==
  \/ \E u \in Patrons, b \in BookIds : Borrow(u, b, MaxBorrows)
  \/ \E i \in 1..MaxBorrows : Return("st", i)
  \/ \E u \in Patrons, b \in BookIds : Reserve(u, b, MaxReservations)
  \/ \E u \in Patrons, i \in 1..MaxReservations : Cancel(u, i)
  \/ \E u \in Librarians, q \in BorrowQueries : ListBorrows(u, q)
  \/ \E u \in Librarians, q \in ReservationQueries : ListReservations(u, q)

ListSpec == SeqInit /\ [][ListNext]_vars

DeleteBook(u, b) == Quiet /\ Serve(DeleteBookReq(u, b))

UserStatus(u, id, isActive) == Quiet /\ Serve(UserStatusReq(u, id, isActive))

DeleteUser(u, id) == Quiet /\ Serve(DeleteUserReq(u, id))

\* lending with the clock standing still, and the administration of books and users
AdminNext ==
  \/ \E u \in Patrons, b \in BookIds : Borrow(u, b, MaxBorrows)
  \/ \E i \in 1..MaxBorrows : Return("st", i)
  \/ \E u \in Patrons, b \in BookIds : Reserve(u, b, MaxReservations)
  \/ \E u \in Patrons, i \in 1..MaxReservations : Cancel(u, i)
  \/ \E b \in BookIds, n \in 1..MaxCopies : CreateBook("st", b, IsbnOf(b), n)
  \/ \E u \in Librarians, b \in BookIds : DeleteBook(u, b)
  \/ \E u \in {"st", "ad"}, id \in {"u2", "ad"}, a \in BOOLEAN : UserStatus(u, id, a)
  \/ \E u \in {"st", "ad"}, id \in Patrons \cup {"ad"} : DeleteUser(u, id)

AdminSpec == SeqInit /\ [][AdminNext]_vars

\* ================================================================ claims
ActiveCount(b) ==
  Cardinality({i \in DOMAIN borrows : borrows[i].bookId = b /\ borrows[i].status = "ACTIVE"})

RowCount(b, status) ==
  Cardinality({i \in DOMAIN borrows : borrows[i].bookId = b /\ borrows[i].status = status})

\* what serving request r in the current state answers and leaves behind
Served(r) == Run(DB, r, now)

Rejected(s) == s.resp.code \in {400, 403, 404, 409} /\ s.db = DB

\* C1: after any sequence of book create, book update, borrow, renew, return,
\* reserve, cancel and sweep requests, every book has
\* availableCopies = totalCopies - (number of its ACTIVE borrows).
C1_AvailableIsTotalMinusActive ==
  \A b \in BookIds :
    books[b].exists => books[b].availableCopies = books[b].totalCopies - ActiveCount(b)

\* C2: after any sequence of borrow and return requests served one at a time,
\* every book has 0 <= availableCopies <= totalCopies.
C2_AvailableInRange ==
  \A b \in BookIds :
    books[b].exists =>
      /\ 0 <= books[b].availableCopies
      /\ books[b].availableCopies <= books[b].totalCopies

\* a book lent out to its last copy, and a borrow that has been returned
C2_Witness ==
  /\ \E b \in BookIds : books[b].exists /\ books[b].availableCopies = 0
  /\ \E i \in DOMAIN borrows : borrows[i].status = "RETURNED"

\* C3: with interleaved borrow requests no book is lent more often than it has
\* copies: availableCopies never drops below 0 and the ACTIVE borrows of a book
\* never outnumber its copies.
C3_NoOverBorrow ==
  \A b \in BookIds :
    books[b].exists =>
      /\ books[b].availableCopies >= 0
      /\ ActiveCount(b) <= books[b].totalCopies

\* C4: a borrow request for a book with availableCopies = 0 is rejected (400,
\* not available) whoever asks, and leaves books, borrows and reservations as
\* they were.
C4_UnavailableBorrowRejected ==
  \A u \in Users, b \in BookIds :
    (books[b].exists /\ books[b].availableCopies = 0) =>
      LET s == Served(BorrowReq(u, b)) IN
      /\ s.resp.code = 400
      /\ s.resp.error = "Book is not available for borrowing"
      /\ s.db = DB

\* a book with no copy left on which some user holds an active reservation
C4_Witness ==
  \E u \in Users, b \in BookIds :
    /\ books[b].exists /\ books[b].availableCopies = 0
    /\ ActiveReservationIds(DB, u, b) # {}
    /\ Served(BorrowReq(u, b)).resp.code = 400

\* C5: no user has two ACTIVE borrows of the same book, also when the user's
\* borrow requests interleave.
C5_NoDoubleBorrow ==
  \A u \in Users, b \in BookIds : Cardinality(ActiveBorrowIds(DB, u, b)) <= 1

\* every request the lending endpoints accept as input
LendingRequests ==
  {BorrowReq(u, b) : u \in Users, b \in BookIds}
  \cup {ReturnReq(u, i) : u \in Users, i \in 1..MaxBorrows}
  \cup {RenewReq(u, i) : u \in Users, i \in 1..MaxBorrows}
  \cup {ReserveReq(u, b) : u \in Users, b \in BookIds}
  \cup {CancelReq(u, i) : u \in Users, i \in 1..MaxReservations}
  \cup {CleanupReq(u) : u \in Users}

C7_ReturnIncrementsOnce ==
  \A b \in BookIds :
    books[b].exists =>
      books[b].availableCopies =
        books[b].totalCopies - (RowCount(b, "ACTIVE") + RowCount(b, "RETURNED"))
          + RowCount(b, "RETURNED")

\* C8: a renewal request on a borrow with renewalCount = 2 is rejected whoever
\* asks (the owner, STAFF and ADMIN get "limit reached") and changes nothing;
\* below the limit a renewal of an ACTIVE borrow by its owner, STAFF or ADMIN
\* succeeds unless another user has an active reservation, so a new borrow is
\* renewed twice and refused the third time.
C8_RenewalLimit ==
  \A i \in DOMAIN borrows, u \in Users :
    LET borrow == borrows[i]
        s == Served(RenewReq(u, i))
        allowed == u = borrow.userId \/ Elevated(u)
    IN /\ borrow.renewalCount = MaxRenewals =>
            /\ Rejected(s)
            /\ (allowed /\ borrow.status = "ACTIVE") =>
                 s.resp.error = "Maximum renewal limit reached"
       /\ ( /\ borrow.renewalCount < MaxRenewals
            /\ borrow.status = "ACTIVE"
            /\ allowed
            /\ OtherActiveReservations(DB, borrow.bookId, borrow.userId) = {} ) =>
            /\ s.resp.code = 200
            /\ s.db.borrows[i].renewalCount = borrow.renewalCount + 1

\* an ACTIVE borrow that has been renewed twice
C8_Witness ==
  \E i \in DOMAIN borrows :
    /\ borrows[i].status = "ACTIVE"
    /\ borrows[i].renewalCount = MaxRenewals
    /\ Served(RenewReq(borrows[i].userId, i)).resp.code = 400

\* C9: every borrow has 0 <= renewalCount <= 2, also when renewal requests on
\* the same borrow interleave.
C9_RenewalCountInRange ==
  \A i \in DOMAIN borrows :
    0 <= borrows[i].renewalCount /\ borrows[i].renewalCount <= MaxRenewals

\* C10: a successful renewal of a borrow due at D leaves it due at D + 14 days
\* exactly, with renewalCount one higher and every other column as it was.
C10_RenewalAddsFourteenDays ==
  \A i \in DOMAIN borrows, u \in Users :
    LET s == Served(RenewReq(u, i)) IN
    s.resp.code = 200 =>
      s.db = [DB EXCEPT !.borrows[i].dueDate = borrows[i].dueDate + 14 * DayLen,
                        !.borrows[i].renewalCount = borrows[i].renewalCount + 1]

\* a borrow taken at time 0 and renewed once, seen after the clock has moved:
\* it is due 28 days after time 0, whenever the renewal was made
C10_Witness ==
  \E i \in DOMAIN borrows :
    /\ borrows[i].renewalCount = 1
    /\ borrows[i].dueDate = (LoanDays + RenewDays) * DayLen
    /\ now > 0

\* the times at which a request may be served from the current state on
Later == now..(now + Horizon)

\* the least whole number of days that covers x ticks, x > 0
DaysCovering(x) == CHOOSE n \in 1..x : n * DayLen >= x /\ (n - 1) * DayLen < x

\* C11: the return at time R of an ACTIVE borrow due at D stores returnDate = R
\* and, if R > D, fineAmount = (R - D in days, rounded up) x 1.00; if R <= D it
\* stores no fine (null).
C11_FineIsCeilOfDaysLate ==
  \A i \in DOMAIN borrows, t \in Later :
    borrows[i].status = "ACTIVE" =>
      LET s == Run(DB, ReturnReq("st", i), t)
          late == t - borrows[i].dueDate
      IN /\ s.resp.code = 200
         /\ s.db.borrows[i].status = "RETURNED"
         /\ s.db.borrows[i].returnDate = t
         /\ s.db.borrows[i].fineAmount = IF late > 0 THEN DaysCovering(late) * 1 ELSE Null

\* one borrow returned part of a day late with a fine of one day, another
\* returned in time without a fine
C11_Witness ==
  \E i, j \in DOMAIN borrows :
    /\ borrows[i].status = "RETURNED"
    /\ borrows[i].returnDate - borrows[i].dueDate \in 1..(DayLen - 1)
    /\ borrows[i].fineAmount = 1
    /\ borrows[j].status = "RETURNED"
    /\ borrows[j].returnDate <= borrows[j].dueDate
    /\ borrows[j].fineAmount = Null

\* C12: a reservation request for a book with availableCopies > 0 is rejected
\* (400, book is available) whoever asks, creates no reservation and leaves
\* books, borrows and reservations as they were.
C12_AvailableBookNotReserved ==
  \A u \in Users, b \in BookIds :
    (books[b].exists /\ books[b].availableCopies > 0) =>
      LET s == Served(ReserveReq(u, b)) IN
      /\ s.resp.code = 400
      /\ s.resp.error = "Book is available, you can borrow it directly"
      /\ s.db = DB

\* a book that was lent out and reserved and has a copy back on the shelf
C12_Witness ==
  \E u \in Users, b \in BookIds :
    /\ books[b].exists /\ books[b].availableCopies > 0
    /\ \E i \in DOMAIN reservations : reservations[i].bookId = b /\ reservations[i].isActive
    /\ ActiveReservationIds(DB, u, b) = {}
    /\ ActiveBorrowIds(DB, u, b) = {}
    /\ Served(ReserveReq(u, b)).resp.code = 400

\* C13: a reservation request succeeds (201, a new active reservation expiring
\* in 7 days) whenever the book exists, has availableCopies = 0 and the user has
\* neither an active reservation nor an ACTIVE borrow for it, also when the
\* user had a reservation for the book that was cancelled, swept or consumed.
C13_ReservationSucceeds ==
  \A u \in Users, b \in BookIds :
    ( /\ books[b].exists /\ books[b].availableCopies = 0
      /\ ActiveReservationIds(DB, u, b) = {}
      /\ ActiveBorrowIds(DB, u, b) = {} ) =>
      LET s == Served(ReserveReq(u, b)) IN
      /\ s.resp.code = 201
      /\ s.db.reservations =
           Append(reservations, NewReservation(u, b, now + ReserveDays * DayLen))

\* C15: the sweep run at time T deactivates exactly the reservations that were
\* active with expiryDate < T, leaves every other reservation, every book and
\* every borrow as it was, and reports the number it deactivated.
C15_SweepExactlyExpired ==
  \A u \in {"st", "ad"}, t \in Later :
    LET s == Run(DB, CleanupReq(u), t)
        due(i) == reservations[i].isActive /\ reservations[i].expiryDate < t
    IN /\ s.resp.code = 200
       /\ DOMAIN s.db.reservations = DOMAIN reservations
       /\ \A i \in DOMAIN reservations :
            s.db.reservations[i] = IF due(i) THEN [reservations[i] EXCEPT !.isActive = FALSE]
                                    ELSE reservations[i]
       /\ s.resp.count = Cardinality({i \in DOMAIN reservations : due(i)})
       /\ s.db.books = books
       /\ s.db.borrows = borrows

\* two active reservations, one past its expiry date and one not: the sweep
\* takes one and reports 1
C15_Witness ==
  \E i, j \in DOMAIN reservations :
    /\ reservations[i].isActive /\ reservations[i].expiryDate < now
    /\ reservations[j].isActive /\ reservations[j].expiryDate >= now
    /\ Served(CleanupReq("st")).resp.count = 1
    /\ ~Served(CleanupReq("st")).db.reservations[i].isActive
    /\ Served(CleanupReq("st")).db.reservations[j].isActive

\* C14: no (userId, bookId) pair has two reservations with isActive = true,
\* also when reservation requests of the same user interleave.
C14_OneActiveReservation ==
  \A u \in Users, b \in BookIds : Cardinality(ActiveReservationIds(DB, u, b)) <= 1

\* a user holds an active reservation while a second request of the same user
\* for the same book has passed its checks and is about to create its row,
\* which the database refuses
C14_Witness ==
  \E p \in Procs :
    /\ At(p, "reserve", "create")
    /\ ActiveReservationIds(DB, req[p].caller, req[p].bookId) # {}
    /\ Reserve_create(DB, req[p], now).resp.code = 500

\* C16: a borrow request never leaves the borrower's reservation deactivated
\* without the Borrow created and the copy counted: as long as the request has
\* not committed its create-and-decrement transaction, the reservation it
\* found is still active.
C16_BorrowAllOrNothing ==
  \A p \in Procs :
    (At(p, "borrow", "transaction") /\ req[p].resId # 0) =>
      reservations[req[p].resId].isActive

\* C20: a renewal of an ACTIVE borrow with renewalCount < 2, asked by its owner
\* or by STAFF or ADMIN, is rejected (400, active reservations) without any
\* change exactly when a user other than the borrower has an active reservation
\* on the book, and succeeds otherwise, also when the borrower has one.
C20_RenewalBlockedByOthers ==
  \A i \in DOMAIN borrows, u \in Users :
    LET borrow == borrows[i]
        s == Served(RenewReq(u, i))
        others == {j \in DOMAIN reservations : /\ reservations[j].bookId = borrow.bookId
                                               /\ reservations[j].isActive
                                               /\ reservations[j].userId # borrow.userId}
    IN ( /\ borrow.status = "ACTIVE"
         /\ borrow.renewalCount < MaxRenewals
         /\ (u = borrow.userId \/ Elevated(u)) ) =>
         IF others # {}
         THEN /\ s.resp.code = 400
              /\ s.resp.error = "Book has active reservations, cannot renew"
              /\ s.db = DB
         ELSE s.resp.code = 200

\* a borrower who also holds an active reservation on the book: the borrower's
\* own renewal goes through, the renewal of another user's borrow of the book is
\* refused
C20_Witness ==
  \E i, j \in DOMAIN borrows :
    /\ borrows[i].status = "ACTIVE"
    /\ ActiveReservationIds(DB, borrows[i].userId, borrows[i].bookId) # {}
    /\ Served(RenewReq(borrows[i].userId, i)).resp.code = 200
    /\ borrows[j].status = "ACTIVE"
    /\ Served(RenewReq(borrows[j].userId, j)).resp.error
         = "Book has active reservations, cannot renew"

\* C17: isActive only goes from true to false: no request of any endpoint
\* turns an inactive reservation active again, and the cancellation of an
\* inactive reservation by its owner, STAFF or ADMIN answers 200 and changes
\* nothing.
C17_DeactivationIsFinal ==
  \A i \in DOMAIN reservations :
    ~reservations[i].isActive =>
      /\ \A r \in LendingRequests :
           /\ i \in DOMAIN Served(r).db.reservations
           /\ ~Served(r).db.reservations[i].isActive
      /\ \A u \in Users :
           (u = reservations[i].userId \/ Elevated(u)) =>
             LET s == Served(CancelReq(u, i)) IN s.resp.code = 200 /\ s.db = DB

\* a reservation that its owner's borrow has consumed, and one that was
\* cancelled or swept while the book was still out
C17_Witness ==
  \E i, j \in DOMAIN reservations :
    /\ ~reservations[i].isActive
    /\ ActiveBorrowIds(DB, reservations[i].userId, reservations[i].bookId) # {}
    /\ ~reservations[j].isActive
    /\ books[reservations[j].bookId].availableCopies = 0
    /\ ActiveBorrowIds(DB, reservations[j].userId, reservations[j].bookId) = {}
    /\ Served(CancelReq(reservations[j].userId, j)).resp.code = 200

\* C18: a return request by a STUDENT is rejected with 403 and changes nothing,
\* also for the student's own borrow; a request that moves a borrow to RETURNED
\* comes from STAFF or ADMIN.
C18_StudentCannotReturn ==
  \A u \in Users, i \in 1..MaxBorrows :
    LET s == Served(ReturnReq(u, i)) IN
    /\ Role(u) = "STUDENT" =>
         /\ s.resp.code = 403
         /\ s.resp.error = "Insufficient permissions"
         /\ s.db = DB
    /\ (i \in DOMAIN borrows /\ s.db.borrows[i] # borrows[i]) => Role(u) \in {"STAFF", "ADMIN"}

\* an ACTIVE borrow that its owner, a student, may not return and STAFF may
C18_Witness ==
  \E i \in DOMAIN borrows :
    /\ borrows[i].status = "ACTIVE"
    /\ Role(borrows[i].userId) = "STUDENT"
    /\ Served(ReturnReq(borrows[i].userId, i)).resp.code = 403
    /\ Served(ReturnReq("st", i)).db.borrows[i].status = "RETURNED"

\* C19: a renewal or a cancellation asked by a STUDENT who does not own the
\* borrow or reservation is rejected with 403 and changes nothing; asked by the
\* owner, STAFF or ADMIN it is never answered 403, and the cancellation goes
\* through.
C19_OwnershipChecks ==
  /\ \A u \in Users, i \in DOMAIN borrows :
       LET s == Served(RenewReq(u, i)) IN
       IF Role(u) = "STUDENT" /\ u # borrows[i].userId
       THEN s.resp.code = 403 /\ s.resp.error = "Insufficient permissions" /\ s.db = DB
       ELSE s.resp.code # 403
  /\ \A u \in Users, i \in DOMAIN reservations :
       LET s == Served(CancelReq(u, i)) IN
       IF Role(u) = "STUDENT" /\ u # reservations[i].userId
       THEN s.resp.code = 403 /\ s.resp.error = "Insufficient permissions" /\ s.db = DB
       ELSE s.resp.code = 200 /\ ~s.db.reservations[i].isActive

\* a borrow that has been renewed and a reservation that has been cancelled,
\* each refused to the other student and open to its owner and to STAFF
C19_Witness ==
  \E i \in DOMAIN borrows, j \in DOMAIN reservations, u, v \in Patrons :
    /\ borrows[i].renewalCount > 0
    /\ u # borrows[i].userId
    /\ Served(RenewReq(u, i)).resp.code = 403
    /\ Served(RenewReq(borrows[i].userId, i)).resp.code = 200
    /\ Served(RenewReq("st", i)).resp.code = 200
    /\ ~reservations[j].isActive
    /\ v # reservations[j].userId
    /\ Served(CancelReq(v, j)).resp.code = 403
    /\ Served(CancelReq(reservations[j].userId, j)).resp.code = 200

\* C21: a renewal, a reservation, a cancellation and a sweep leave every
\* book's availableCopies and totalCopies (the whole books table) as they were,
\* whoever asks and whatever the answer.
C21_CopyCountsUntouched ==
  /\ \A u \in Users, i \in 1..MaxBorrows : Served(RenewReq(u, i)).db.books = books
  /\ \A u \in Users, b \in BookIds : Served(ReserveReq(u, b)).db.books = books
  /\ \A u \in Users, i \in 1..MaxReservations : Served(CancelReq(u, i)).db.books = books
  /\ \A u \in Users : Served(CleanupReq(u)).db.books = books

\* a renewed borrow, a reservation that was cancelled or swept, and a further
\* reservation that would be accepted
C21_Witness ==
  /\ \E i \in DOMAIN borrows : borrows[i].renewalCount > 0 /\ borrows[i].status = "ACTIVE"
  /\ \E j \in DOMAIN reservations : ~reservations[j].isActive
  /\ \E u \in Users, b \in BookIds : Served(ReserveReq(u, b)).resp.code = 201

\* C22: a return changes no reservation, and a reservation gives no priority:
\* when a copy is available and user A holds an active reservation on the book,
\* a borrow request of a user B without reservation (and without ACTIVE borrow
\* of the book) succeeds and leaves A's reservation active.
C22_NoReservationPriority ==
  /\ \A u \in Users, i \in 1..MaxBorrows :
       Served(ReturnReq(u, i)).db.reservations = reservations
  /\ \A a \in Users, b \in BookIds, bb \in Users :
       ( /\ books[b].exists /\ books[b].availableCopies > 0
         /\ a # bb
         /\ ActiveReservationIds(DB, a, b) # {}
         /\ ActiveReservationIds(DB, bb, b) = {}
         /\ ActiveBorrowIds(DB, bb, b) = {} ) =>
         LET s == Served(BorrowReq(bb, b)) IN
         /\ s.resp.code = 201
         /\ s.db.reservations = reservations

\* a book returned while A's reservation was active and then borrowed by B, A's
\* reservation still active
C22_Witness ==
  \E j \in DOMAIN reservations, i, k \in DOMAIN borrows :
    /\ reservations[j].isActive
    /\ borrows[i].bookId = reservations[j].bookId
    /\ borrows[i].status = "RETURNED"
    /\ k > i
    /\ borrows[k].bookId = reservations[j].bookId
    /\ borrows[k].status = "ACTIVE"
    /\ borrows[k].userId # reservations[j].userId

\* C24: every borrow that has not been returned is due 14 days per renewal after
\* the due date it was created with (the clock stands at 0, so every borrow is
\* created due after the loan period), also when renewals of it interleave.
C24_DueDateFollowsRenewals ==
  \A i \in DOMAIN borrows :
    borrows[i].status = "ACTIVE" =>
      borrows[i].dueDate = LoanDays * DayLen + RenewDays * DayLen * borrows[i].renewalCount

\* C25: no user has an ACTIVE borrow and an active reservation for the same
\* book, also when the user's borrow and reservation requests interleave with
\* other users' borrows.
C25_NoBorrowWithReservation ==
  \A u \in Users, b \in BookIds :
    ~(ActiveBorrowIds(DB, u, b) # {} /\ ActiveReservationIds(DB, u, b) # {})

\* C26: a reservation that is active and past its expiry date counts as active
\* until it is swept or cancelled: its holder's new reservation request for the
\* book is refused as a duplicate, another user's renewal of the book is refused
\* for the reservation, and no borrow, return, renewal or reservation request
\* deactivates it, except the holder's own borrow.
C26_ExpiryOnlyThroughSweep ==
  \A j \in DOMAIN reservations :
    LET res == reservations[j] IN
    (res.isActive /\ res.expiryDate < now) =>
      /\ books[res.bookId].availableCopies = 0 =>
           LET s == Served(ReserveReq(res.userId, res.bookId)) IN
           /\ s.resp.code = 400
           /\ s.resp.error = "You already have an active reservation for this book"
           /\ s.db = DB
      /\ \A i \in DOMAIN borrows :
           ( /\ borrows[i].status = "ACTIVE"
             /\ borrows[i].bookId = res.bookId
             /\ borrows[i].userId # res.userId
             /\ borrows[i].renewalCount < MaxRenewals ) =>
             LET s == Served(RenewReq(borrows[i].userId, i)) IN
             /\ s.resp.code = 400
             /\ s.resp.error = "Book has active reservations, cannot renew"
             /\ s.db = DB
      /\ \A r \in LendingRequests :
           (r.op \in {"return", "renew", "reserve"} \/ (r.op = "borrow" /\ r.caller # res.userId)) =>
             Served(r).db.reservations[j].isActive

\* an unswept reservation past its expiry date on a book whose only copy
\* another user has on loan and could otherwise renew
C26_Witness ==
  \E j \in DOMAIN reservations, i \in DOMAIN borrows :
    /\ reservations[j].isActive /\ reservations[j].expiryDate < now
    /\ books[reservations[j].bookId].availableCopies = 0
    /\ borrows[i].status = "ACTIVE"
    /\ borrows[i].bookId = reservations[j].bookId
    /\ borrows[i].userId # reservations[j].userId
    /\ borrows[i].renewalCount < MaxRenewals
    /\ Served(RenewReq(borrows[i].userId, i)).resp.code = 400
    /\ Served(CleanupReq("st")).resp.count = 1

\* C23: the overdue query changes nothing, lists exactly the ACTIVE borrows
\* with dueDate < now, each once, and the fine it projects at time T is the
\* fineAmount a return of that borrow at time T would store.
C23_OverdueQueryProjectsReturnFine ==
  \A u \in {"st", "ad"}, t \in Later, lag \in 0..1 :
    LET s == Run(DB, OverdueReq(u, lag), t) IN
    /\ s.resp.code = 200
    /\ s.db = DB
    /\ {row.id : row \in s.resp.rows}
         = {i \in DOMAIN borrows : borrows[i].status = "ACTIVE" /\ borrows[i].dueDate < t}
    /\ Cardinality(s.resp.rows) = s.resp.count
    /\ \A row \in s.resp.rows :
         /\ row.borrow = borrows[row.id]
         /\ row.calculatedFine
              = Run(DB, ReturnReq("st", row.id), t + lag).db.borrows[row.id].fineAmount

\* a borrow a day and a half overdue, listed with a fine of two days, next to a
\* returned borrow, which is not listed
C23_Witness ==
  \E i, j \in DOMAIN borrows :
    /\ borrows[i].status = "ACTIVE" /\ borrows[i].dueDate < now
    /\ borrows[j].status = "RETURNED" /\ borrows[j].dueDate < now
    /\ \E row \in Served(OverdueReq("st", 0)).resp.rows :
         row.id = i /\ row.calculatedFine = 1
    /\ \E row \in Served(OverdueReq("st", 1)).resp.rows :
         row.id = i /\ row.calculatedFine = 1
    /\ \E row \in Run(DB, OverdueReq("st", 1), now + DayLen).resp.rows :
         row.id = i /\ row.calculatedFine = 2
    /\ Served(OverdueReq("st", 0)).resp.count = 1

\* the database without the borrows and reservations of users other than u
\* (the rows of u keep their ids)
OwnRecordsOnly(u) ==
  [DB EXCEPT !.borrows = [i \in {k \in DOMAIN borrows : borrows[k].userId = u} |-> borrows[i]],
             !.reservations =
               [i \in {k \in DOMAIN reservations : reservations[k].userId = u} |-> reservations[i]]]

\* C28: whatever status, isActive, userId, page and limit a STUDENT passes, the
\* borrows and reservations lists return only rows whose userId is the
\* student's, and the whole response (rows and total) is the one the student
\* would get if no other user had any borrow or reservation.
C28_StudentSeesOwnRecordsOnly ==
  \A u \in Patrons :
    /\ \A q \in [status : {"", "ACTIVE", "RETURNED"}, userId : {""} \cup Users,
                 page : 1..2, limit : {1, 10}] :
         LET s == Served(ListBorrowsReq(u, q)) IN
         /\ s.resp.code = 200
         /\ \A k \in DOMAIN s.resp.rows : s.resp.rows[k].borrow.userId = u
         /\ s.resp = Run(OwnRecordsOnly(u), ListBorrowsReq(u, q), now).resp
    /\ \A q \in [isActive : {"", "true", "false"}, userId : {""} \cup Users,
                 page : 1..2, limit : {1, 10}] :
         LET s == Served(ListReservationsReq(u, q)) IN
         /\ s.resp.code = 200
         /\ \A k \in DOMAIN s.resp.rows : s.resp.rows[k].reservation.userId = u
         /\ s.resp = Run(OwnRecordsOnly(u), ListReservationsReq(u, q), now).resp

\* two students with a borrow and a reservation each: asking for the other's
\* rows gives nothing, asking for all gives the own row, STAFF gets both
C28_Witness ==
  \E u, v \in Patrons :
    LET all == [status |-> "", userId |-> "", page |-> 1, limit |-> 10]
        theirs == [status |-> "", userId |-> v, page |-> 1, limit |-> 10]
        allRes == [isActive |-> "", userId |-> "", page |-> 1, limit |-> 10]
        theirRes == [isActive |-> "", userId |-> v, page |-> 1, limit |-> 10]
    IN /\ u # v
       /\ Served(ListBorrowsReq("st", theirs)).resp.count = 1
       /\ Served(ListBorrowsReq(u, theirs)).resp.rows = <<>>
       /\ Served(ListBorrowsReq(u, theirs)).resp.count = 0
       /\ Len(Served(ListBorrowsReq(u, all)).resp.rows) = 1
       /\ Len(Served(ListBorrowsReq("st", all)).resp.rows) = 2
       /\ Served(ListReservationsReq("st", theirRes)).resp.count = 1
       /\ Served(ListReservationsReq(u, theirRes)).resp.rows = <<>>
       /\ Len(Served(ListReservationsReq(u, allRes)).resp.rows) = 1
       /\ Len(Served(ListReservationsReq("st", allRes)).resp.rows) = 2

C29_AdminUntouched ==
  /\ \A id \in Users : SeedUsers[id].role = "ADMIN" => users[id] = SeedUsers[id]
  /\ \A u \in Users, id \in Users :
       (users[id].exists /\ users[id].role = "ADMIN") =>
         /\ Rejected(Served(DeleteUserReq(u, id)))
         /\ \A a \in BOOLEAN : Rejected(Served(UserStatusReq(u, id, a)))

\* other accounts have been deactivated and deleted, and the administrator's
\* own requests against the administrator account are answered 400
C29_Witness ==
  /\ \E x \in Users : ~users[x].exists
  /\ \E y \in Users : users[y].exists /\ ~users[y].isActive
  /\ Served(DeleteUserReq("ad", "ad")).resp.code = 400
  /\ Served(UserStatusReq("ad", "ad", FALSE)).resp.code = 400

\* C30: every registration that has started ends, and the users never share a
\* student ID.
C30_RegistrationTerminates ==
  /\ [](\A u \in UserIds, v \in UserIds :
          (/\ u # v
           /\ users[u].exists
           /\ users[v].exists
           /\ users[u].studentId # Null) => users[u].studentId # users[v].studentId)
  /\ \A p \in Procs : (req[p].op = "register") ~> (req[p] = Idle)

====
